---- MODULE Spec2Model ----
(***************************************************************************)
(* A model of src/phantom_snap/phantom.py: PhantomJSRenderer, the session  *)
(* that drives one long-lived PhantomJS worker over its stdin/stdout, and  *)
(* PipeReader, the drain of the worker's stderr.                           *)
(*                                                                         *)
(* Program counters are named after the source line the context is about  *)
(* to execute: "r115" is render about to run line 115, "s221" is shutdown *)
(* about to run line 221.  Contexts are the host's two caller threads and *)
(* "sig", the frame of the signal handler, which Python runs on the main  *)
(* thread between two bytecodes of whatever the main thread was doing.    *)
(***************************************************************************)
EXTENDS Naturals, Sequences, FiniteSets, TLC

\* ------------------------------------------------------------------ bounds
\* What the host's callers and its environment start in one behaviour:
\* render and shutdown calls, the construction of a second session, the
\* delivery of a signal.
MaxCalls == 3
\* Worker processes that Popen creates in one behaviour.
MaxSpawns == 2
\* The pieces of written lines that a worker's stdin pipe holds unread
\* before a further write to it blocks.
PipeCap == 3

\* ------------------------------------------------------------------- sets
Sessions == {1, 2}
Threads == {"main", "t1"}
Ctx == Threads \cup {"sig"}
Procs == 1..MaxSpawns
\* shutdown's timeout argument: the default None, or the handler's 0.
Timeouts == {"None", "0"}
\* The value of a field that holds Python's None.
None == "None"

\* The thread a context runs on: the handler's frame is on the main thread.
Tid(c) == IF c = "sig" THEN "main" ELSE c

\* -------------------------------------------------- the worker's protocol
Fields == {"status", "loadTime", "paintTime", "base64", "error"}
Url == "http://a/"
ImgFormat == "PNG"

\* What the worker may put on one line of its stdout: a JSON object, a line
\* that is no JSON (ASCII only), a line that is no JSON and holds a byte
\* outside ASCII.  The stream carries the request each line answers; what
\* the line holds is drawn when it is read.
Bodies == {"ok", "bad", "badu"}
\* readline's results that are no worker line: TimedMethod's None after the
\* deadline, and '' at end of file.
TimedOutBody == "None"
EofBody == ""
NoLine == [req |-> 0, body |-> "unset"]
TimedOutLine == [req |-> 0, body |-> TimedOutBody]
EofLine == [req |-> 0, body |-> EofBody]

\* json.loads of a body: the parsed object of the one well-formed body.
OkObject == [f \in {"status", "base64"} |->
               IF f = "status" THEN "ok" ELSE "aW1n"]
Parses(body) == body = "ok"
IsAscii(body) == body # "badu"

\* ----------------------------------------------------- the file system
\* What a path names: nothing, a directory, a regular file that is not
\* executable, a regular file that is.
FileKinds == {"absent", "dir", "file", "exe"}
\* os.environ["PATH"], in order.
PathDirs == <<"path1", "path2">>
\* The paths _which may look at: the configured program as given, and the
\* program joined to each directory of PATH.
Candidates == {"given", "path1", "path2"}
\* hasdir: the configured program has a directory part (os.path.split).
AllFiles == [hasdir : BOOLEAN, at : [Candidates -> FileKinds],
             script : FileKinds]
GoodFiles == [hasdir |-> FALSE,
              at |-> [c \in Candidates |->
                        IF c = "path2" THEN "exe" ELSE "absent"],
              script |-> "file"]

\* A variant that takes any regular file for an executable.
IsExe_AnyFile(k) == k \in {"file", "exe"}

\* is_exe, lines 264-265: os.path.isfile and os.access(X_OK).
IsExe(k) == k = "exe"

\* os.path.isfile, line 42.
IsFile(k) == k \in {"file", "exe"}

\* The loop of lines 272-276 over the rest of PATH.
RECURSIVE WhichOnPath(_, _)
WhichOnPath(f, dirs) ==
    IF dirs = <<>> THEN None
    ELSE IF IsExe(f.at[Head(dirs)]) THEN Head(dirs)
    ELSE WhichOnPath(f, Tail(dirs))

\* _which, lines 260-278: the path of the executable, or None.
Which(f) ==
    IF f.hasdir
    THEN IF IsExe(f.at["given"]) THEN "given" ELSE None
    ELSE WhichOnPath(f, PathDirs)

\* ------------------------------------------------------ the timeout table
\* self.config[u'timeouts'], in seconds.
PageLoad == 30
InitialRenderResponse == 10
RenderResponse == 3
\* render's page_load_timeout argument: None, or a number of seconds.
PageLoadArgs == {"None", "5"}
Seconds(a) == IF a = "5" THEN 5 ELSE 0

\* Lines 77-78: the configured default when the caller gives none.
PageLoadTimeout(a) == IF a = None THEN PageLoad ELSE Seconds(a)

\* A variant that gives every render the deadline of a first render.
RenderTimeout_AlwaysInitial(first) == InitialRenderResponse

\* Lines 118-121: the deadline of the response, by the first_render flag.
RenderTimeout(first) ==
    IF first THEN InitialRenderResponse ELSE RenderResponse

VARIABLES
    constructed,    \* session -> "no" | the thread whose __init__ built it
    handler,        \* the session whose _on_signal is installed, 0 if none
    exited,         \* os._exit(0) has run
    files,          \* what the host's file system holds at the configured
                    \*   executable and script paths
    proc,           \* session -> self._proc (0 is None)
    stderr_reader,  \* session -> self._stderr_reader (0 is None), the
                    \*   PipeReader of that process's stderr
    comms_owner,    \* session -> thread holding self._comms_lock, or "none"
    comms_count,    \* session -> hold count of the re-entrant lock
    pstate,         \* process -> "none" | "run" | "dead"
    psig,           \* process -> "none" | "term" | "kill", the last request
    pin,            \* process -> unread chunks on its stdin
    pout,           \* process -> unread lines on its stdout, each the
                    \*   number of the request it answers
    orphans,        \* process -> abandoned readline units blocked on stdout
    drain,          \* process -> "none" | "run" | "shut", its PipeReader
    nprocs,         \* processes created so far
    spawner,        \* process -> the number of the call that created it
    pc,             \* context -> program counter
    self,           \* context -> the session its call is on
    fr,             \* context -> the locals of its frame
    res,            \* context -> how its last finished call ended
    ncalls,         \* top-level calls started so far
    spawns,         \* session -> Popen invocations
    cold,           \* session -> render calls that found self._proc None
    rin,            \* the response-construction harness: its input
    rout            \*   and the response built from it

sessVars == <<proc, stderr_reader, comms_owner, comms_count>>
lockVars == <<comms_owner, comms_count>>
procVars == <<pstate, psig, pin, pout, orphans, drain, nprocs, spawner>>
hostVars == <<constructed, handler, exited, files>>
cntVars == <<ncalls, spawns, cold>>
respVars == <<rin, rout>>
vars == <<constructed, handler, exited, files, proc, stderr_reader,
          comms_owner, comms_count, pstate, psig, pin, pout, orphans, drain,
          nprocs, spawner, pc, self, fr, res, ncalls, spawns, cold, rin, rout>>

\* --------------------------------------------------------------- response
\* render, lines 130-136: the response before any field is filled in.
EmptyResponse(url, fmt) ==
    [url |-> url, status |-> None, load_time |-> None, paint_time |-> None,
     base64 |-> None, format |-> fmt, error |-> None]

\* render, lines 138-140.
TimeoutResponse(url, fmt) ==
    [EmptyResponse(url, fmt) EXCEPT !.status = "fail",
                                    !.error = "Render request has timed out."]

\* A variant that leaves the status of such a response unset.
DefaultStatus_None == None

\* The status of a response whose worker line holds no status: line 154.
DefaultStatus == "fail"

\* One optional field, lines 156-166: the worker's value when present.
CopyField(pr, f) ==
    IF f \in DOMAIN pr THEN pr[f] ELSE None

\* render, lines 151-166: the response built from a parsed worker object.
Response(url, fmt, pr) ==
    [url |-> url,
     status |-> IF "status" \in DOMAIN pr THEN pr["status"] ELSE DefaultStatus,
     load_time |-> CopyField(pr, "loadTime"),
     paint_time |-> CopyField(pr, "paintTime"),
     base64 |-> CopyField(pr, "base64"),
     format |-> fmt,
     error |-> CopyField(pr, "error")]

\* str(e) of json.loads' ValueError.
JsonError == "No JSON object could be decoded"

\* render, lines 173-174.
ParseErrorResponse(url, fmt, body) ==
    [EmptyResponse(url, fmt) EXCEPT
        !.status = "fail",
        !.error = JsonError \o "\nPhantomJS response: " \o body]

NoResponse == EmptyResponse("", "")

\* ------------------------------------------------------------------ frames
Frame0 ==
    [id |-> 0, first |-> FALSE, rs |-> NoLine, newp |-> 0, newr |-> 0,
     rp |-> 0,
     timeout |-> "None", lproc |-> 0, lsr |-> 0, ret |-> "top",
     forced |-> FALSE, plt |-> "None", deadline |-> 0,
     q |-> FALSE, resp |-> NoResponse]

Res0 ==
    [kind |-> "none", op |-> "none", resp |-> NoResponse]

\* No other context is inside a call.
Quiet(c) == \A d \in Ctx \ {c} : pc[d] = "idle"

\* A context may take a step: the host is alive, and the main thread's own
\* frame is suspended while the handler's frame is on top of it.
Runs(c) ==
    /\ ~exited
    /\ c = "main" => pc["sig"] = "idle"

\* The host before any call: no process, no thread inside a call.
InitIdle ==
    /\ exited = FALSE
    /\ proc = [s \in Sessions |-> 0]
    /\ stderr_reader = [s \in Sessions |-> 0]
    /\ comms_owner = [s \in Sessions |-> "none"]
    /\ comms_count = [s \in Sessions |-> 0]
    /\ pstate = [p \in Procs |-> "none"]
    /\ psig = [p \in Procs |-> "none"]
    /\ pin = [p \in Procs |-> <<>>]
    /\ pout = [p \in Procs |-> <<>>]
    /\ orphans = [p \in Procs |-> 0]
    /\ drain = [p \in Procs |-> "none"]
    /\ nprocs = 0
    /\ spawner = [p \in Procs |-> 0]
    /\ pc = [c \in Ctx |-> "idle"]
    /\ self = [c \in Ctx |-> 1]
    /\ fr = [c \in Ctx |-> Frame0]
    /\ res = [c \in Ctx |-> Res0]
    /\ ncalls = 0
    /\ spawns = [s \in Sessions |-> 0]
    /\ cold = [s \in Sessions |-> 0]

\* Session 1 has been constructed on the main thread, on a file system that
\* holds the executable and the script.
InitProgram ==
    /\ InitIdle
    /\ constructed = [s \in Sessions |-> IF s = 1 THEN "main" ELSE "no"]
    /\ handler = 1
    /\ files = GoodFiles

Init ==
    /\ InitProgram
    /\ rin = [url |-> Url, fmt |-> ImgFormat, pr |-> OkObject]
    /\ rout = NoResponse

\* ------------------------------------------------------ the re-entrant guard
\* TimedRLock: the lock is free or already held by the calling thread.
LockAvailable(s, c) == comms_owner[s] \in {"none", Tid(c)}

\* TimedRLock.acquire(True, timeout): the results a call can have now.  With
\* no timeout it blocks until the lock is available; with timeout 0 the
\* time may be up before the lock is obtained, available or not.
AcquireOutcomes(s, c, t) ==
    (IF LockAvailable(s, c) THEN {"got"} ELSE {})
        \cup (IF t = "0" THEN {"missed"} ELSE {})

Acquire(s, c) ==
    /\ comms_owner' = [comms_owner EXCEPT ![s] = Tid(c)]
    /\ comms_count' = [comms_count EXCEPT ![s] = @ + 1]

Release(s) ==
    /\ comms_count' = [comms_count EXCEPT ![s] = IF @ > 0 THEN @ - 1 ELSE 0]
    /\ comms_owner' = [comms_owner EXCEPT
                          ![s] = IF comms_count[s] <= 1 THEN "none" ELSE @]

\* ------------------------------------------------------------ construction
\* __init__, lines 35-49: the fields start as None, and a session built on
\* the main thread installs its own _on_signal for SIGABRT, SIGINT, SIGTERM,
\* replacing whatever handler was installed.
InstalledHandler(s, th) ==
    IF th = "main" THEN s ELSE handler

\* Lines 39-43: the executable is located and the script is a file, or
\* __init__ raises RenderError.
Prerequisites(f) == Which(f) # None /\ IsFile(f.script)

Construct(s, th) ==
    /\ Runs(th)
    /\ pc[th] = "idle"
    /\ constructed[s] = "no"
    /\ ncalls < MaxCalls
    /\ ncalls' = ncalls + 1
    /\ IF Prerequisites(files)
       THEN /\ constructed' = [constructed EXCEPT ![s] = th]
            /\ handler' = InstalledHandler(s, th)
            /\ proc' = [proc EXCEPT ![s] = 0]
            /\ stderr_reader' = [stderr_reader EXCEPT ![s] = 0]
            /\ comms_owner' = [comms_owner EXCEPT ![s] = "none"]
            /\ comms_count' = [comms_count EXCEPT ![s] = 0]
            /\ UNCHANGED res
       ELSE /\ res' = [res EXCEPT ![th] =
                         [kind |-> "raised", op |-> "construct",
                          resp |-> NoResponse]]
            /\ UNCHANGED <<constructed, handler, sessVars>>
    /\ UNCHANGED <<exited, files, procVars, pc, self, fr, spawns, cold,
                   respVars>>

\* ------------------------------------------------------------------- calls
NewFrame(c, s) ==
    [Frame0 EXCEPT !.id = ncalls + 1, !.q = Quiet(c)]

\* A caller thread enters render (lines 68-89 build the request).
CallRender(c, s) ==
    /\ Runs(c)
    /\ pc[c] = "idle"
    /\ constructed[s] # "no"
    /\ ncalls < MaxCalls
    /\ ncalls' = ncalls + 1
    /\ pc' = [pc EXCEPT ![c] = "r91"]
    /\ self' = [self EXCEPT ![c] = s]
    /\ fr' = [fr EXCEPT ![c] = NewFrame(c, s)]
    /\ res' = [res EXCEPT ![c] = Res0]
    /\ UNCHANGED <<hostVars, sessVars, procVars, spawns, cold, respVars>>

\* A caller thread enters shutdown(timeout).
CallShutdown(c, s, t) ==
    /\ Runs(c)
    /\ pc[c] = "idle"
    /\ constructed[s] # "no"
    /\ ncalls < MaxCalls
    /\ ncalls' = ncalls + 1
    /\ pc' = [pc EXCEPT ![c] = "s191"]
    /\ self' = [self EXCEPT ![c] = s]
    /\ fr' = [fr EXCEPT ![c] = [NewFrame(c, s) EXCEPT !.timeout = t]]
    /\ res' = [res EXCEPT ![c] = Res0]
    /\ UNCHANGED <<hostVars, sessVars, procVars, spawns, cold, respVars>>

\* _on_signal, lines 248-250: a signal is delivered and the installed
\* handler starts shutdown(timeout=0) on its session, on top of the main
\* thread's frame.  Python runs the handler between two bytecodes, so not
\* inside the main thread's own write call.
Signal ==
    /\ ~exited
    /\ handler # 0
    /\ pc["sig"] = "idle"
    /\ pc["main"] # "r115b"
    /\ ncalls < MaxCalls
    /\ ncalls' = ncalls + 1
    /\ pc' = [pc EXCEPT !["sig"] = "s191"]
    /\ self' = [self EXCEPT !["sig"] = handler]
    /\ fr' = [fr EXCEPT !["sig"] =
                 [Frame0 EXCEPT !.id = ncalls + 1, !.timeout = "0",
                                !.ret = "exit", !.q = Quiet("sig")]]
    /\ UNCHANGED <<hostVars, sessVars, procVars, res, spawns, cold,
                   respVars>>

\* ------------------------------------------------------------------ render
Goto(c, l) == pc' = [pc EXCEPT ![c] = l]

\* stdin.write and flush (lines 115-116, 197-198) are plain blocking calls:
\* with the pipe of a running worker full they do not return.
WriteBlocks(p) == pstate[p] = "run" /\ Len(pin[p]) >= PipeCap

\* A variant of the with block that does not release the guard on exit.
WithExit_NoRelease(s) == UNCHANGED lockVars

\* Line 91: leaving the with block, by return or by exception, releases
\* the guard.
WithExit(s) == Release(s)

\* A variant that re-raises without calling shutdown.
ExceptTarget_NoShutdown == "r181"

\* Lines 178-180: an exception inside the try block is logged and render
\* calls self.shutdown(); line 181 re-raises when shutdown is back.
ExceptTarget == "s191"

ExceptFrame(f) == [f EXCEPT !.timeout = "None", !.ret = "r181"]

Raise(c) ==
    /\ Goto(c, ExceptTarget)
    /\ fr' = [fr EXCEPT ![c] = ExceptFrame(@)]

\* A variant that enters without waiting for the guard.
RenderMayEnter_NoWait(s, c) == TRUE

\* Line 91, `with self._comms_lock:` blocks until the guard is available.
RenderMayEnter(s, c) == LockAvailable(s, c)

\* A variant that starts a process on every render.
NeedsSpawn_Always(s) == TRUE

\* Line 95: the process is started only when there is no handle.
NeedsSpawn(s) == proc[s] = 0

\* Lines 91-95: the guard is acquired and the handle looked at.
R91(c) ==
    /\ Runs(c)
    /\ pc[c] = "r91"
    /\ RenderMayEnter(self[c], c)
    /\ Acquire(self[c], c)
    /\ Goto(c, IF NeedsSpawn(self[c]) THEN "r107" ELSE "r115")
    /\ cold' = [cold EXCEPT ![self[c]] = IF proc[self[c]] = 0 THEN @ + 1 ELSE @]
    /\ UNCHANGED <<hostVars, proc, stderr_reader, procVars, self, fr, res,
                   ncalls, spawns, respVars>>

\* Line 107, the call: Popen under TimedMethod with the startup deadline.
\* It creates a process, raises (the spawn failed), or is out of time and
\* gives None.
R107(c) ==
    /\ Runs(c)
    /\ pc[c] = "r107"
    /\ spawns' = [spawns EXCEPT ![self[c]] = @ + 1]
    /\ \/ /\ nprocs < MaxSpawns
          /\ nprocs' = nprocs + 1
          /\ spawner' = [spawner EXCEPT ![nprocs + 1] = fr[c].id]
          /\ pstate' = [pstate EXCEPT ![nprocs + 1] = "run"]
          /\ fr' = [fr EXCEPT ![c].newp = nprocs + 1]
          /\ Goto(c, "r107s")
       \/ /\ Raise(c)
          /\ UNCHANGED <<nprocs, spawner, pstate>>
       \/ /\ fr' = [fr EXCEPT ![c].newp = 0]
          /\ Goto(c, "r107s")
          /\ UNCHANGED <<nprocs, spawner, pstate>>
    /\ UNCHANGED <<hostVars, sessVars, psig, pin, pout, orphans, drain, self,
                   res, ncalls, cold, respVars>>

\* Line 107, the assignment to self._proc.
R107s(c) ==
    /\ Runs(c)
    /\ pc[c] = "r107s"
    /\ proc' = [proc EXCEPT ![self[c]] = fr[c].newp]
    /\ fr' = [fr EXCEPT ![c].newp = 0]
    /\ Goto(c, "r108")
    /\ UNCHANGED <<hostVars, stderr_reader, lockVars, procVars, self,
                   res, cntVars, respVars>>

\* Line 108, PipeReader(self._proc.stderr): the drain's thread is started
\* (lines 283-291); self._proc being None raises AttributeError.
R108(c) ==
    /\ Runs(c)
    /\ pc[c] = "r108"
    /\ IF proc[self[c]] = 0
       THEN /\ Raise(c)
            /\ UNCHANGED drain
       ELSE /\ drain' = [drain EXCEPT ![proc[self[c]]] = "run"]
            /\ fr' = [fr EXCEPT ![c].newr = proc[self[c]]]
            /\ Goto(c, "r108s")
    /\ UNCHANGED <<hostVars, sessVars, pstate, psig, pin, pout, orphans,
                   nprocs, spawner, self, res, cntVars, respVars>>

\* Line 108, the assignment to self._stderr_reader, and line 110.
R108s(c) ==
    /\ Runs(c)
    /\ pc[c] = "r108s"
    /\ stderr_reader' = [stderr_reader EXCEPT ![self[c]] = fr[c].newr]
    /\ fr' = [fr EXCEPT ![c].first = TRUE, ![c].newr = 0]
    /\ Goto(c, "r115")
    /\ UNCHANGED <<hostVars, proc, lockVars, procVars, self, res, cntVars,
                   respVars>>

\* Lines 112-115: the request line is written to self._proc.stdin.  A long
\* line reaches the pipe in more than one piece: this is the first.  No
\* handle raises AttributeError, a dead worker a broken pipe.
R115(c) ==
    /\ Runs(c)
    /\ pc[c] = "r115"
    /\ proc[self[c]] # 0 => ~WriteBlocks(proc[self[c]])
    /\ IF proc[self[c]] = 0 \/ pstate[proc[self[c]]] # "run"
       THEN /\ Raise(c)
            /\ UNCHANGED pin
       ELSE /\ pin' = [pin EXCEPT ![proc[self[c]]] =
                          Append(@, [req |-> fr[c].id, part |-> "head"])]
            /\ fr' = [fr EXCEPT ![c].rp = proc[self[c]]]
            /\ Goto(c, "r115b")
    /\ UNCHANGED <<hostVars, sessVars, pstate, psig, pout, orphans, drain,
                   nprocs, spawner, self, res, cntVars, respVars>>

\* Lines 115-116: the rest of the line with its newline, and the flush.
R115b(c) ==
    /\ Runs(c)
    /\ pc[c] = "r115b"
    /\ ~WriteBlocks(fr[c].rp)
    /\ IF pstate[fr[c].rp] # "run"
       THEN /\ Raise(c)
            /\ UNCHANGED pin
       ELSE /\ pin' = [pin EXCEPT ![fr[c].rp] =
                          Append(@, [req |-> fr[c].id, part |-> "tail"])]
            /\ fr' = [fr EXCEPT ![c].rp = 0]
            /\ Goto(c, "r123")
    /\ UNCHANGED <<hostVars, sessVars, pstate, psig, pout, orphans, drain,
                   nprocs, spawner, self, res, cntVars, respVars>>

\* Lines 118-123: self._proc.stdout.readline is handed to TimedMethod with
\* the deadline page_load_timeout + render_timeout.  The page_load_timeout
\* the caller gave is drawn here, where it is first used.
R123(c) ==
    /\ Runs(c)
    /\ pc[c] = "r123"
    /\ IF proc[self[c]] = 0
       THEN Raise(c)
       ELSE /\ \E a \in PageLoadArgs :
                 fr' = [fr EXCEPT
                          ![c].rp = proc[self[c]],
                          ![c].plt = a,
                          ![c].deadline = PageLoadTimeout(a)
                                          + RenderTimeout(fr[c].first)]
            /\ Goto(c, "r123w")
    /\ UNCHANGED <<hostVars, sessVars, procVars, self, res, cntVars,
                   respVars>>

\* Line 123, the bounded read: a line within the deadline, '' at end of file,
\* or None once the deadline has passed; the background unit of a call that
\* gave None stays blocked in readline.
R123w(c) ==
    /\ Runs(c)
    /\ pc[c] = "r123w"
    /\ IF pout[fr[c].rp] # <<>>
       THEN /\ \E b \in Bodies :
                 fr' = [fr EXCEPT ![c].rs = [req |-> Head(pout[fr[c].rp]),
                                             body |-> b],
                                  ![c].rp = 0, ![c].plt = "None",
                                  ![c].deadline = 0]
            /\ pout' = [pout EXCEPT ![fr[c].rp] = Tail(@)]
            /\ UNCHANGED orphans
       ELSE IF pstate[fr[c].rp] # "run"
       THEN /\ fr' = [fr EXCEPT ![c].rs = EofLine, ![c].rp = 0,
                                 ![c].plt = "None", ![c].deadline = 0]
            /\ UNCHANGED <<pout, orphans>>
       ELSE /\ fr' = [fr EXCEPT ![c].rs = TimedOutLine, ![c].rp = 0,
                                 ![c].plt = "None", ![c].deadline = 0]
            /\ orphans' = [orphans EXCEPT ![fr[c].rp] = @ + 1]
            /\ UNCHANGED pout
    /\ Goto(c, "r125")
    /\ UNCHANGED <<hostVars, sessVars, pstate, psig, pin, drain, nprocs, spawner,
                   self, res, cntVars, respVars>>

\* Lines 138-174: what render does with the result of the read.  None is a
\* timeout; a line json.loads accepts is copied; a line it rejects is logged
\* (line 169) and the worker shut down, and formatting the log message of a
\* line with a byte outside ASCII raises UnicodeDecodeError in the handler.
AfterRead(body) ==
    IF body = TimedOutBody THEN "timeout"
    ELSE IF Parses(body) THEN "object"
    ELSE IF IsAscii(body) THEN "malformed"
    ELSE "raise"

\* Lines 125-174 and 233-246: the diagnostics are drained
\* (self._stderr_reader being None raises AttributeError), then the response
\* is built, or shutdown is called from line 171.
R125(c) ==
    /\ Runs(c)
    /\ pc[c] = "r125"
    /\ IF stderr_reader[self[c]] = 0
       THEN Raise(c)
       ELSE CASE AfterRead(fr[c].rs.body) = "timeout" ->
                   /\ fr' = [fr EXCEPT
                               ![c].resp = TimeoutResponse(Url, ImgFormat)]
                   /\ Goto(c, "r176")
              [] AfterRead(fr[c].rs.body) = "object" ->
                   /\ fr' = [fr EXCEPT
                               ![c].resp = Response(Url, ImgFormat, OkObject)]
                   /\ Goto(c, "r176")
              [] AfterRead(fr[c].rs.body) = "malformed" ->
                   /\ fr' = [fr EXCEPT ![c].timeout = "None",
                                       ![c].ret = "r173"]
                   /\ Goto(c, "s191")
              [] OTHER -> Raise(c)
    /\ UNCHANGED <<hostVars, sessVars, procVars, self, res, cntVars,
                   respVars>>

\* Line 176: the response is returned and the with block releases the guard.
R176(c) ==
    /\ Runs(c)
    /\ pc[c] = "r176"
    /\ WithExit(self[c])
    /\ res' = [res EXCEPT ![c] =
                 [kind |-> "response", op |-> "render",
                  resp |-> fr[c].resp]]
    /\ fr' = [fr EXCEPT ![c] = Frame0]
    /\ Goto(c, "idle")
    /\ UNCHANGED <<hostVars, proc, stderr_reader, procVars, self, cntVars,
                   respVars>>

\* Line 181: the exception is re-raised through the with block, which
\* releases the guard.
R181(c) ==
    /\ Runs(c)
    /\ pc[c] = "r181"
    /\ WithExit(self[c])
    /\ res' = [res EXCEPT ![c] =
                 [kind |-> "raised", op |-> "render", resp |-> NoResponse]]
    /\ fr' = [fr EXCEPT ![c] = Frame0]
    /\ Goto(c, "idle")
    /\ UNCHANGED <<hostVars, proc, stderr_reader, procVars, self, cntVars,
                   respVars>>

\* ---------------------------------------------------------------- shutdown
\* The locals of shutdown, cleared when it is left.
Left(f) == [f EXCEPT !.timeout = "None", !.lproc = 0, !.lsr = 0,
                     !.ret = "top", !.forced = FALSE]

\* shutdown is left, by returning or (exc) by raising, to where it was
\* called from: a caller thread, line 171, line 180, or the handler, whose
\* next line is os._exit(0) (line 251).  An exception out of shutdown at
\* line 171 is raised inside the handler of the parse error and so reaches
\* line 178.  An exception out of the signal handler unwinds the main
\* thread: the host's run is taken to end there.
ShutdownDone(c, exc) ==
    CASE fr[c].ret = "top" ->
           /\ Goto(c, "idle")
           /\ res' = [res EXCEPT ![c] =
                        [kind |-> IF exc THEN "raised" ELSE "returned",
                         op |-> "shutdown", resp |-> NoResponse]]
           /\ fr' = [fr EXCEPT ![c] = Frame0]
           /\ UNCHANGED exited
      [] fr[c].ret = "r173" ->
           /\ IF exc
              THEN /\ Goto(c, ExceptTarget)
                   /\ fr' = [fr EXCEPT ![c] = ExceptFrame(Left(@))]
              ELSE /\ Goto(c, "r176")
                   /\ fr' = [fr EXCEPT ![c] =
                               [Left(@) EXCEPT !.resp =
                                  ParseErrorResponse(Url, ImgFormat,
                                                     fr[c].rs.body)]]
           /\ UNCHANGED <<res, exited>>
      [] fr[c].ret = "r181" ->
           /\ Goto(c, "r181")
           /\ fr' = [fr EXCEPT ![c] = Left(@)]
           /\ UNCHANGED <<res, exited>>
      [] OTHER ->
           /\ Goto(c, "idle")
           /\ res' = [res EXCEPT ![c] =
                        [kind |-> IF exc THEN "raised" ELSE "returned",
                         op |-> "handler", resp |-> NoResponse]]
           /\ fr' = [fr EXCEPT ![c] = Frame0]
           /\ exited' = TRUE

\* A variant that never waits for the guard.
AcquireTimeout_Zero(f) == "0"

\* Line 191: the guard is asked for with the caller's timeout.
AcquireTimeout(f) == f.timeout

\* A variant without the early return of line 194.
HasNoProcess_Never(s) == FALSE

\* Line 193: no process handle.
HasNoProcess(s) == proc[s] = 0

\* Lines 191-194 and 214: the guard is acquired within the timeout, or it
\* is not.  With the guard and no handle shutdown returns at once, from
\* inside the try: the guard is released and lines 227-231 are not run.
S191(c) ==
    /\ Runs(c)
    /\ pc[c] = "s191"
    /\ \E o \in AcquireOutcomes(self[c], c, AcquireTimeout(fr[c])) :
          IF o = "got"
          THEN IF HasNoProcess(self[c])
               THEN /\ ShutdownDone(c, FALSE)
                    /\ UNCHANGED lockVars
               ELSE /\ Acquire(self[c], c)
                    /\ Goto(c, "s197")
                    /\ UNCHANGED <<fr, res, exited>>
          ELSE /\ Goto(c, "s221")
               /\ fr' = [fr EXCEPT ![c].forced = TRUE]
               /\ UNCHANGED <<lockVars, res, exited>>
    /\ UNCHANGED <<constructed, handler, files, proc, stderr_reader, procVars, self,
                   cntVars, respVars>>

\* Lines 197-198: 'exit' is written and flushed, and line 201 starts the
\* bounded wait.  An exception (no handle, a broken pipe) is eaten by line
\* 202.
S197(c) ==
    /\ Runs(c)
    /\ pc[c] = "s197"
    /\ proc[self[c]] # 0 => ~WriteBlocks(proc[self[c]])
    /\ IF proc[self[c]] # 0 /\ pstate[proc[self[c]]] = "run"
       THEN pin' = [pin EXCEPT ![proc[self[c]]] =
                       Append(@, [req |-> 0, part |-> "exit"])]
       ELSE UNCHANGED pin
    /\ Goto(c, "s205")
    /\ UNCHANGED <<hostVars, sessVars, pstate, psig, pout, orphans, drain,
                   nprocs, spawner, self, fr, res, cntVars, respVars>>

\* A variant that requests termination whatever poll gives.
StillRunning_Always(p) == TRUE

\* Lines 205-207: poll gives None for a process that has not exited.
StillRunning(p) == pstate[p] = "run"

\* Lines 201-214: the wait is over (the worker has exited, or the grace
\* period has passed); poll, terminate a worker that still runs, clear the
\* handle and release the guard.  self._proc being None at line 205 raises
\* AttributeError out of the finally block, through line 214.
S205(c) ==
    /\ Runs(c)
    /\ pc[c] = "s205"
    /\ Release(self[c])
    /\ IF proc[self[c]] = 0
       THEN /\ ShutdownDone(c, TRUE)
            /\ UNCHANGED <<proc, pstate, psig, pin>>
       ELSE /\ IF StillRunning(proc[self[c]])
               THEN /\ psig' = [psig EXCEPT ![proc[self[c]]] = "term"]
                    /\ pstate' = [pstate EXCEPT ![proc[self[c]]] = "dead"]
                    /\ pin' = [pin EXCEPT ![proc[self[c]]] = <<>>]
               ELSE UNCHANGED <<pstate, psig, pin>>
            /\ proc' = [proc EXCEPT ![self[c]] = 0]
            /\ Goto(c, "s227")
            /\ UNCHANGED <<fr, res, exited>>
    /\ UNCHANGED <<constructed, handler, files, stderr_reader, pout, orphans,
                   drain, nprocs, spawner, self, cntVars, respVars>>

\* Line 221: the guard was not acquired; the handle is read without it.
S221(c) ==
    /\ Runs(c)
    /\ pc[c] = "s221"
    /\ fr' = [fr EXCEPT ![c].lproc = proc[self[c]]]
    /\ Goto(c, "s222")
    /\ UNCHANGED <<hostVars, sessVars, procVars, self, res, cntVars,
                   respVars>>

\* Lines 222-225: the handle is cleared and the process that line 221 read
\* is killed.
S222(c) ==
    /\ Runs(c)
    /\ pc[c] = "s222"
    /\ proc' = [proc EXCEPT ![self[c]] = 0]
    /\ IF fr[c].lproc # 0
       THEN /\ psig' = [psig EXCEPT ![fr[c].lproc] = "kill"]
            /\ pstate' = [pstate EXCEPT ![fr[c].lproc] = "dead"]
            /\ pin' = [pin EXCEPT ![fr[c].lproc] = <<>>]
       ELSE UNCHANGED <<pstate, psig, pin>>
    /\ fr' = [fr EXCEPT ![c].lproc = 0]
    /\ Goto(c, "s227")
    /\ UNCHANGED <<hostVars, stderr_reader, lockVars, pout, orphans,
                   drain, nprocs, spawner, self, res, cntVars, respVars>>

\* Line 227: the drain handle is read.
S227(c) ==
    /\ Runs(c)
    /\ pc[c] = "s227"
    /\ fr' = [fr EXCEPT ![c].lsr = stderr_reader[self[c]]]
    /\ Goto(c, "s228")
    /\ UNCHANGED <<hostVars, sessVars, procVars, self, res, cntVars,
                   respVars>>

\* Lines 228-231 and 305-309: the drain handle is cleared, the drain that
\* line 227 read is shut down, and shutdown returns.
S228(c) ==
    /\ Runs(c)
    /\ pc[c] = "s228"
    /\ stderr_reader' = [stderr_reader EXCEPT ![self[c]] = 0]
    /\ drain' = IF fr[c].lsr # 0
                THEN [drain EXCEPT ![fr[c].lsr] = "shut"]
                ELSE drain
    /\ ShutdownDone(c, FALSE)
    /\ UNCHANGED <<constructed, handler, files, proc, lockVars, pstate, psig, pin,
                   pout, orphans, nprocs, spawner, self, cntVars, respVars>>

\* -------------------------------------------------------------- the worker
\* The worker reads one whole request line and answers it with one line.
WorkerRespond(p) ==
    /\ ~exited
    /\ pstate[p] = "run"
    /\ Len(pin[p]) >= 2
    /\ pin[p][1].part = "head"
    /\ pin[p][2] = [req |-> pin[p][1].req, part |-> "tail"]
    /\ pin' = [pin EXCEPT ![p] = SubSeq(@, 3, Len(@))]
    /\ pout' = [pout EXCEPT ![p] = Append(@, pin[p][1].req)]
    /\ UNCHANGED <<hostVars, sessVars, pstate, psig, orphans, drain, nprocs, spawner,
                   pc, self, fr, res, cntVars, respVars>>

\* A context is at a step that tells a dead worker from a live one: a write
\* to its stdin, a read of its stdout, a poll.
Observed(p) ==
    \E c \in Ctx :
        \/ pc[c] \in {"r115", "s197", "s205"} /\ proc[self[c]] = p
        \/ pc[c] \in {"r115b", "r123w"} /\ fr[c].rp = p

\* The worker stops: it has read the line 'exit', or it dies on its own.
\* What was left on its stdin is gone with it.  Its death is taken at the
\* last moment before a step of the host that can tell.
WorkerExit(p) ==
    /\ ~exited
    /\ pstate[p] = "run"
    /\ Observed(p)
    /\ pin' = [pin EXCEPT ![p] = <<>>]
    /\ pstate' = [pstate EXCEPT ![p] = "dead"]
    /\ UNCHANGED <<hostVars, sessVars, psig, pout, orphans, drain, nprocs, spawner,
                   pc, self, fr, res, cntVars, respVars>>

\* A background unit that a timed-out read left blocked in readline gets
\* the next line of the stream, which is then lost.
OrphanRead(p) ==
    /\ ~exited
    /\ orphans[p] > 0
    /\ pout[p] # <<>>
    /\ pout' = [pout EXCEPT ![p] = Tail(@)]
    /\ orphans' = [orphans EXCEPT ![p] = @ - 1]
    /\ UNCHANGED <<hostVars, sessVars, pstate, psig, pin, drain, nprocs, spawner,
                   pc, self, fr, res, cntVars, respVars>>

\* ----------------------------------------------------------- specification
Next ==
    \/ \E s \in Sessions, th \in Threads : Construct(s, th)
    \/ \E c \in Threads, s \in Sessions : CallRender(c, s)
    \/ \E c \in Threads, s \in Sessions, t \in Timeouts : CallShutdown(c, s, t)
    \/ Signal
    \/ \E c \in Threads : R91(c)
    \/ \E c \in Threads : R107(c)
    \/ \E c \in Threads : R107s(c)
    \/ \E c \in Threads : R108(c)
    \/ \E c \in Threads : R108s(c)
    \/ \E c \in Threads : R115(c)
    \/ \E c \in Threads : R115b(c)
    \/ \E c \in Threads : R123(c)
    \/ \E c \in Threads : R123w(c)
    \/ \E c \in Threads : R125(c)
    \/ \E c \in Threads : R176(c)
    \/ \E c \in Threads : R181(c)
    \/ \E c \in Ctx : S191(c)
    \/ \E c \in Ctx : S197(c)
    \/ \E c \in Ctx : S205(c)
    \/ \E c \in Ctx : S221(c)
    \/ \E c \in Ctx : S222(c)
    \/ \E c \in Ctx : S227(c)
    \/ \E c \in Ctx : S228(c)
    \/ \E p \in Procs : WorkerRespond(p)
    \/ \E p \in Procs : WorkerExit(p)
    \/ \E p \in Procs : OrphanRead(p)

Spec == Init /\ [][Next]_vars

\* ------------------------------------- the response built from a worker line
\* What a worker may give as the value of a field: text, a zero, JSON null.
WorkerValues == {"ok", "0", None}
Urls == {"http://a/", "http://b/"}
ImgFormats == {"PNG", "JPEG"}

\* The parsed worker objects: every subset of the protocol's fields present.
WorkerObjects == UNION {[D -> WorkerValues] : D \in SUBSET Fields}

ResponseInputs == [url : Urls, fmt : ImgFormats, pr : WorkerObjects]

InitResponse ==
    /\ InitProgram
    /\ rin \in ResponseInputs
    /\ rout = NoResponse

\* Lines 130-166 applied to one parsed worker object.
BuildResponse ==
    /\ rout = NoResponse
    /\ rout' = Response(rin.url, rin.fmt, rin.pr)
    /\ UNCHANGED <<hostVars, sessVars, procVars, pc, self, fr, res, cntVars,
                   rin>>

NextResponse == BuildResponse

SpecResponse == InitResponse /\ [][NextResponse]_vars

\* ------------------------------------------------------------------ claims
ShutdownPcs == {"s191", "s197", "s205", "s221", "s222", "s227", "s228"}

\* The context is in shutdown called from render (line 171 or line 180).
Nested(c) == pc[c] \in ShutdownPcs /\ fr[c].ret \in {"r173", "r181"}

\* The context is in render between 'guard acquired' and 'guard released'.
InGuard(c) ==
    \/ pc[c] \in {"r107", "r107s", "r108", "r108s", "r115", "r115b", "r123",
                  "r123w", "r125", "r176", "r181"}
    \/ Nested(c)

\* The context is in the exception path of render: lines 178-181.
InExcept(c) ==
    \/ pc[c] = "r181"
    \/ pc[c] \in ShutdownPcs /\ fr[c].ret = "r181"

\* The unread input of a worker is whole lines: the two pieces of a request
\* line follow each other, and only the line being written lacks its end.
WholeLines(q) ==
    \A i \in 1..Len(q) :
        /\ q[i].part = "head" =>
              IF i < Len(q)
              THEN q[i + 1] = [req |-> q[i].req, part |-> "tail"]
              ELSE \E c \in Threads : pc[c] = "r115b" /\ fr[c].id = q[i].req
        /\ q[i].part = "tail" =>
              i > 1 /\ q[i - 1] = [req |-> q[i].req, part |-> "head"]

\* C1: render calls on one session are serialized by the guard: no two of
\* them are between 'guard acquired' and 'guard released' at once; a context
\* that writes to the worker's input (a request line in render, 'exit' in
\* shutdown) holds the guard; and the input of a running worker is a
\* sequence of whole lines.
C1_RendersSerialized ==
    /\ \A c, d \in Threads :
          (c # d /\ self[c] = self[d]) => ~(InGuard(c) /\ InGuard(d))
    /\ \A c \in Ctx :
          pc[c] \in {"r115", "r115b", "s197"}
              => comms_owner[self[c]] = Tid(c) /\ comms_count[self[c]] > 0
    /\ \A p \in Procs : pstate[p] = "run" => WholeLines(pin[p])

\* One render is in the middle of writing its request line while the other
\* thread's render waits for the guard of the same session.
C1_Witness ==
    \E c, d \in Threads :
        /\ pc[c] = "r115b" /\ pc[d] = "r91" /\ self[c] = self[d]
        /\ pin[fr[c].rp] # <<>>

\* C2: a render whose bounded read timed out goes on to drain the
\* diagnostics and return the timeout response, and never enters shutdown
\* or the exception path.
C2_TimeoutAlwaysAnswered ==
    \A c \in Threads :
        fr[c].rs = TimedOutLine =>
            /\ pc[c] \in {"r125", "r176"}
            /\ pc[c] = "r176" => fr[c].resp = TimeoutResponse(Url, ImgFormat)

C4_MalformedNeverRaises ==
    \A c \in Threads :
        (fr[c].rs.req # 0 /\ ~Parses(fr[c].rs.body)) =>
            /\ ~InExcept(c)
            /\ pc[c] = "r176" =>
                  /\ fr[c].resp = ParseErrorResponse(Url, ImgFormat,
                                                     fr[c].rs.body)
                  /\ proc[self[c]] = 0

\* C5: an exception raised inside the exchange reaches the caller only
\* through shutdown (line 180), and when render raises it the session holds
\* no process handle, the guard is free and no response is returned.
C5_Step(c) ==
    /\ (pc'[c] = "r181" /\ pc[c] # "r181")
          => pc[c] \in ShutdownPcs /\ fr[c].ret = "r181"
    /\ (pc[c] = "r181" /\ pc'[c] # "r181")
          => /\ pc'[c] = "idle"
             /\ res'[c].kind = "raised"
             /\ res'[c].resp = NoResponse
             /\ proc'[self[c]] = 0
             /\ comms_owner'[self[c]] = "none"
             /\ comms_count'[self[c]] = 0

C5_ExceptionTearsDown == [][\A c \in Threads : C5_Step(c)]_vars

\* A render has raised after a worker had been started: its shutdown
\* terminated the worker, or the worker had died and broken the pipe.
C5_Witness ==
    \E c \in Threads :
        /\ pc[c] = "idle" /\ res[c].kind = "raised" /\ res[c].op = "render"
        /\ proc[self[c]] = 0
        /\ \E p \in Procs : pstate[p] = "dead" /\ psig[p] # "kill"

\* C6: when shutdown(timeout=0) returns, the session holds no process
\* handle, whatever a render on another thread was doing meanwhile.
C6_Step(c) ==
    (pc[c] \in ShutdownPcs /\ fr[c].ret = "top" /\ fr[c].timeout = "0"
        /\ pc'[c] = "idle")
      => proc'[self[c]] = 0

C6_ZeroTimeoutShutdownClears == [][\A c \in Threads : C6_Step(c)]_vars

\* C7: once the signal handler has run to os._exit, no worker of a host
\* whose sessions were all constructed on the main thread is still running
\* without having been sent a kill or terminate request.
C7_NoOrphanAtExit ==
    (exited /\ res["sig"].kind = "returned"
        /\ \A s \in Sessions : constructed[s] \in {"no", "main"})
      => \A p \in Procs : pstate[p] = "run" => psig[p] # "none"

\* C8: every render that found no process handle calls Popen once and no
\* other render does, so the spawns of a session are the renders that
\* started in NoProcess; and a request is only ever written to a process
\* that exists and has had its drain attached.
C8_SpawnBeforeWrite ==
    /\ \A s \in Sessions :
          cold[s] = spawns[s]
                    + Cardinality({c \in Threads :
                                     pc[c] = "r107" /\ self[c] = s})
    /\ \A c \in Threads :
          pc[c] = "r115b" =>
              /\ fr[c].rp # 0
              /\ pstate[fr[c].rp] # "none"
              /\ drain[fr[c].rp] # "none"
    /\ \A p \in Procs :
          (\E i \in 1..Len(pin[p]) : pin[p][i].part \in {"head", "tail"})
              => drain[p] # "none"

\* After a shutdown the session's second cold render has spawned the second
\* worker and is writing its request to it.
C8_Witness ==
    \E c \in Threads :
        /\ pc[c] = "r115b" /\ fr[c].first
        /\ spawns[self[c]] = 2 /\ cold[self[c]] = 2
        /\ fr[c].rp = 2

\* C9: each of the five protocol fields is copied on its own: a field the
\* worker line holds appears with the worker's value, a field it lacks
\* becomes 'fail' for status and None for the others; url and format echo
\* the request.
C9_FieldsCopied ==
    rout # NoResponse =>
        /\ rout.url = rin.url
        /\ rout.format = rin.fmt
        /\ rout.status = IF "status" \in DOMAIN rin.pr
                         THEN rin.pr["status"] ELSE "fail"
        /\ rout.load_time = IF "loadTime" \in DOMAIN rin.pr
                            THEN rin.pr["loadTime"] ELSE None
        /\ rout.paint_time = IF "paintTime" \in DOMAIN rin.pr
                             THEN rin.pr["paintTime"] ELSE None
        /\ rout.base64 = IF "base64" \in DOMAIN rin.pr
                         THEN rin.pr["base64"] ELSE None
        /\ rout.error = IF "error" \in DOMAIN rin.pr
                        THEN rin.pr["error"] ELSE None

\* A response has been built from a line that holds base64 and a zero
\* loadTime and lacks status and error.
C9_Witness ==
    /\ rout # NoResponse
    /\ DOMAIN rin.pr = {"base64", "loadTime"}
    /\ rin.pr["loadTime"] = "0"
    /\ rout.status = "fail" /\ rout.load_time = "0" /\ rout.error = None

\* The shutdown call of c runs alone: no call was in progress when it
\* started, and nothing has been started since.
Alone(c) == fr[c].q /\ fr[c].id = ncalls /\ Quiet(c)

\* C10: a shutdown call that runs alone on a session with no process handle
\* and no drain handle changes no handle, writes to no stream, signals no
\* process, shuts down no drain and returns without raising, with the guard
\* free; and a shutdown call that runs alone and gets past line 193 or
\* takes the forced-kill branch returns with no process handle, no drain
\* handle and the guard free, which is the state a second call then keeps.
C10_Step(c) ==
    /\ (pc[c] \in {"s191", "s221", "s222", "s227", "s228"}
            /\ pc'[c] # pc[c] /\ fr[c].ret = "top" /\ Alone(c)
            /\ proc[self[c]] = 0 /\ stderr_reader[self[c]] = 0
            /\ fr[c].lproc = 0 /\ fr[c].lsr = 0)
          => /\ pc'[c] \in {"idle", "s221", "s222", "s227", "s228"}
             /\ UNCHANGED <<proc, stderr_reader, pin, pstate, psig, drain>>
             /\ pc'[c] = "idle" =>
                   /\ res'[c].kind = "returned"
                   /\ comms_owner'[self[c]] = "none"
    /\ (pc[c] = "s228" /\ pc'[c] # pc[c] /\ fr[c].ret = "top" /\ Alone(c))
          => /\ pc'[c] = "idle"
             /\ res'[c].kind = "returned"
             /\ proc'[self[c]] = 0
             /\ stderr_reader'[self[c]] = 0
             /\ comms_owner'[self[c]] = "none"

C10_ShutdownIdempotent == [][\A c \in Threads : C10_Step(c)]_vars

\* A second shutdown is being called, alone, right after another context's
\* shutdown took the one worker of the session down from Running.
C10_Witness ==
    \E c, d \in Threads :
        /\ c # d
        /\ pc[c] = "s191" /\ fr[c].ret = "top" /\ Alone(c)
        /\ res[d].kind = "returned" /\ res[d].op = "shutdown"
        /\ self[c] = self[d]
        /\ nprocs = 1 /\ psig[1] = "term"
        /\ proc[self[c]] = 0 /\ stderr_reader[self[c]] = 0

\* ------------------------------------------------------------ construction
\* No session has been constructed yet, on any of the file systems.
InitConstruct ==
    /\ InitIdle
    /\ constructed = [s \in Sessions |-> "no"]
    /\ handler = 0
    /\ files \in AllFiles
    /\ rin = [url |-> Url, fmt |-> ImgFormat, pr |-> OkObject]
    /\ rout = NoResponse

NextConstruct == \E s \in Sessions, th \in Threads : Construct(s, th)

SpecConstruct == InitConstruct /\ [][NextConstruct]_vars

\* The configured executable can be located as an executable file: it is
\* one where it is given with a directory, or in some directory of PATH.
Located ==
    IF files.hasdir THEN files.at["given"] = "exe"
    ELSE \E i \in 1..Len(PathDirs) : files.at[PathDirs[i]] = "exe"

ScriptExists == files.script \in {"file", "exe"}

\* C11: a construction on a file system where the executable cannot be
\* located as an executable file, or the script is no existing file, raises
\* and constructs no session, installs no handler, spawns no process and
\* creates no drain; any other construction gives a session with no process
\* handle and no drain handle, and spawns nothing.
C11_Step(s, th) ==
    (constructed' # constructed \/ res'[th] # res[th]) =>
        IF Located /\ ScriptExists
        THEN /\ constructed[s] = "no" => res'[th] = res[th]
             /\ constructed'[s] # "no" =>
                   /\ proc'[s] = 0 /\ stderr_reader'[s] = 0
                   /\ comms_owner'[s] = "none"
             /\ constructed' # constructed
             /\ UNCHANGED <<nprocs, pstate, drain>>
        ELSE /\ \E t \in Threads :
                   /\ res'[t].kind = "raised" /\ res'[t].op = "construct"
             /\ UNCHANGED <<constructed, handler, nprocs, pstate, drain,
                            proc, stderr_reader>>

C11_ConstructionFailsFast ==
    [][\A s \in Sessions, th \in Threads : C11_Step(s, th)]_vars

\* A construction on the main thread has raised because the program, given
\* without a directory, is on PATH only as a file that is not executable,
\* and no handler is installed.
C11_Witness ==
    /\ res["main"].kind = "raised" /\ res["main"].op = "construct"
    /\ ~files.hasdir
    /\ files.at["path1"] = "file" /\ files.at["path2"] = "absent"
    /\ files.at["given"] = "exe"
    /\ files.script = "file"
    /\ handler = 0

\* --------------------------------------------------- renders under fairness
\* The steps of the calls of one thread.
HostStep(c) ==
    \/ R91(c) \/ R107(c) \/ R107s(c) \/ R108(c) \/ R108s(c)
    \/ R115(c) \/ R115b(c) \/ R123(c) \/ R123w(c) \/ R125(c)
    \/ R176(c) \/ R181(c)
    \/ S191(c) \/ S197(c) \/ S205(c) \/ S227(c) \/ S228(c)

\* Render calls on session 1 and nothing else from the host's callers; the
\* worker answers, stays silent or dies as it likes.
NextRenders ==
    \/ \E c \in Threads : CallRender(c, 1)
    \/ \E c \in Threads : HostStep(c)
    \/ \E p \in Procs : WorkerRespond(p)
    \/ \E p \in Procs : WorkerExit(p)
    \/ \E p \in Procs : OrphanRead(p)

\* A thread that can take a step of its call takes one: the scheduler runs
\* every runnable thread, and TimedMethod's deadlines pass.  Nothing is
\* asked of the worker.
SpecRenders ==
    /\ Init
    /\ [][NextRenders]_vars
    /\ \A c \in Threads : WF_vars(HostStep(c))

\* C12: every render call eventually finishes, by returning a response or by
\* raising, whatever the worker does.
C12_RenderFinishes ==
    \A c \in Threads : (pc[c] # "idle") ~> (pc[c] = "idle")

Overlapped(d) ==
    /\ fr[d].forced /\ fr[d].ret = "top"
    /\ ~fr[d].q /\ fr[d].id = ncalls
    /\ pc["sig"] = "idle"

\* C14: when a forced-kill shutdown that overlapped a render is the second
\* of the two to finish, the render has ended with a response or an
\* exception, the guard is free and the session holds no process handle and
\* no drain handle.
C14_Step(c, d) ==
    (c # d /\ self[c] = self[d] /\ Overlapped(d)
        /\ pc[d] = "s228" /\ pc'[d] = "idle"
        /\ pc[c] = "idle" /\ res[c].op = "render")
      => /\ res[c].kind \in {"response", "raised"}
         /\ comms_owner'[self[d]] = "none"
         /\ proc'[self[d]] = 0
         /\ stderr_reader'[self[d]] = 0

C14_ForcedKillIsSafe == [][\A c, d \in Threads : C14_Step(c, d)]_vars

\* C15: a shutdown with the default timeout, called by a thread, leaves
\* line 191 only with the guard, when no render of another thread on the
\* session is inside the guard; it never takes the forced-kill branch; and
\* it writes 'exit' only when no render of another thread is between the
\* write of its request line and the read of the response.
C15_Step(c) ==
    /\ (pc[c] = "s191" /\ pc'[c] # "s191" /\ fr[c].ret = "top"
            /\ fr[c].timeout = "None")
          => /\ pc'[c] # "s221"
             /\ comms_owner[self[c]] \in {"none", c}
             /\ \A d \in Threads \ {c} : self[d] = self[c] => ~InGuard(d)
    /\ (pc[c] = "s197" /\ pc'[c] # "s197" /\ fr[c].ret = "top"
            /\ fr[c].timeout = "None")
          => /\ comms_owner[self[c]] = c
             /\ \A d \in Threads \ {c} :
                   self[d] = self[c]
                       => pc[d] \notin {"r115b", "r123", "r123w", "r125"}
    /\ (fr'[c].ret = "top" /\ fr'[c].timeout = "None")
          => ~fr'[c].forced /\ pc'[c] \notin {"s221", "s222"}

C15_DefaultShutdownWaits == [][\A c \in Threads : C15_Step(c)]_vars

\* A shutdown with the default timeout that was called while the other
\* thread's render was in progress is in the graceful branch, about to
\* write 'exit', and that render has returned.
C15_Witness ==
    \E c, d \in Threads :
        /\ c # d /\ self[c] = self[d]
        /\ pc[c] = "s197" /\ fr[c].ret = "top" /\ fr[c].timeout = "None"
        /\ ~fr[c].q /\ fr[c].id = ncalls
        /\ pc[d] = "idle" /\ res[d].op = "render" /\ res[d].kind = "response"

\* The line 'exit' is among what the worker has not read.
ExitWritten(p) == \E i \in 1..Len(pin[p]) : pin[p][i].part = "exit"

\* C16: in the graceful branch the write of 'exit' is always followed by
\* the wait and the poll, whatever the write did, and signals nothing; then
\* termination is requested of a worker that has still not exited, one that
\* was sent 'exit' before, and of no other; the process handle is cleared
\* and the guard released once on every way out of the branch.
C16_Step(c) ==
    /\ (pc[c] = "s197" /\ pc'[c] # "s197")
          => /\ pc'[c] = "s205"
             /\ UNCHANGED <<proc, psig, pstate, comms_owner, comms_count>>
    /\ (pc[c] = "s205" /\ pc'[c] # "s205")
          => /\ proc'[self[c]] = 0
             /\ comms_count'[self[c]] = comms_count[self[c]] - 1
             /\ comms_count[self[c]] = 1 => comms_owner'[self[c]] = "none"
             /\ \A p \in Procs :
                   psig'[p] # psig[p]
                       => /\ p = proc[self[c]]
                          /\ pstate[p] = "run"
                          /\ psig'[p] = "term"
                          /\ ExitWritten(p)
             /\ (proc[self[c]] # 0 /\ pstate[proc[self[c]]] = "run")
                   => psig'[proc[self[c]]] = "term"

C16_GracefulOrder == [][\A c \in Ctx : C16_Step(c)]_vars

\* A graceful shutdown has cleared the handle of a worker that had exited
\* within the grace period, so that no termination was requested.
C16_Witness ==
    \E c \in Threads :
        /\ pc[c] = "s227" /\ fr[c].ret = "top" /\ ~fr[c].forced
        /\ nprocs = 1 /\ pstate[1] = "dead" /\ psig[1] = "none"
        /\ proc[self[c]] = 0 /\ stderr_reader[self[c]] = 1
        /\ comms_owner[self[c]] = "none"

\* C17: the deadline of the bounded read is the page-load timeout of the
\* request, the configured one when the caller gave none, plus the
\* initial-render deadline when this call created the worker it reads from
\* and the subsequent-render deadline when an earlier call did.
C17_ResponseDeadline ==
    \A c \in Threads :
        pc[c] = "r123w" =>
            fr[c].deadline =
                (IF fr[c].plt = "None" THEN PageLoad ELSE 5)
                + (IF spawner[fr[c].rp] = fr[c].id
                   THEN InitialRenderResponse ELSE RenderResponse)

\* A render with a page-load timeout of 5 reads from a worker that an
\* earlier render created and whose earlier read timed out: its deadline
\* is 5 plus the subsequent-render deadline.
C17_Witness ==
    \E c \in Threads :
        /\ pc[c] = "r123w" /\ fr[c].plt = "5"
        /\ spawner[fr[c].rp] # fr[c].id
        /\ orphans[fr[c].rp] = 1
        /\ fr[c].deadline = 5 + RenderResponse

\* C18: when a shutdown call returns, by line 194 or after line 231, the
\* session's process handle and drain handle are None and the drain the
\* handle named has been shut down.
C18_Step(c) ==
    (pc[c] \in {"s191", "s228"} /\ pc'[c] \notin ShutdownPcs)
      => /\ proc'[self[c]] = 0
         /\ stderr_reader'[self[c]] = 0
         /\ stderr_reader[self[c]] # 0
               => drain'[stderr_reader[self[c]]] = "shut"

C18_ShutdownDetachesDrain == [][\A c \in Ctx : C18_Step(c)]_vars

\* C19: while no render or shutdown call is executing, a session holds a
\* drain handle exactly when it holds a process handle, the drain is the
\* one of that process, and every drain that has not been shut down is the
\* one some session holds.
C19_OneDrainPerWorker ==
    ((\A c \in Ctx : pc[c] = "idle") /\ ~exited) =>
        /\ \A s \in Sessions : stderr_reader[s] = proc[s]
        /\ \A p \in Procs :
              drain[p] = "run" => \E s \in Sessions : stderr_reader[s] = p

\* The holds of the guard of session s that the call of context c has
\* taken and not yet given back, by where the call is.
HoldDepth(c, s) ==
    IF self[c] # s \/ pc[c] \in {"idle", "r91"} THEN 0
    ELSE IF pc[c] \notin ShutdownPcs THEN 1
    ELSE (IF fr[c].ret \in {"r173", "r181"} THEN 1 ELSE 0)
         + (IF pc[c] \in {"s197", "s205"} THEN 1 ELSE 0)

\* C20: the hold count of each session's guard is the number of holds the
\* calls in progress have taken and not given back, all of them by the
\* thread that owns the guard; a shutdown called from inside render finds
\* the guard available; and the guard is free whenever no call is in
\* progress.
C20_GuardBalanced ==
    /\ \A s \in Sessions :
          /\ comms_count[s] = HoldDepth("main", s) + HoldDepth("t1", s)
                              + HoldDepth("sig", s)
          /\ comms_count[s] = 0 <=> comms_owner[s] = "none"
          /\ \A c \in Ctx : HoldDepth(c, s) > 0 => comms_owner[s] = Tid(c)
    /\ \A c \in Threads :
          (Nested(c) /\ pc[c] = "s191") => LockAvailable(self[c], c)
    /\ (\A c \in Ctx : pc[c] = "idle")
          => \A s \in Sessions : comms_owner[s] = "none"

\* A shutdown called from line 171 of render holds the guard a second time.
C20_Witness ==
    \E c \in Threads :
        /\ pc[c] = "s205" /\ fr[c].ret = "r173"
        /\ comms_count[self[c]] = 2 /\ comms_owner[self[c]] = c

====
